---- MODULE Spec2Model ----
(***************************************************************************)
(* The interaction state machine of the two-pane file browser              *)
(* (src/src/main.rs): the State struct, the run loop with its key          *)
(* handlers, update_fzf with its await on run_fzf_query, read_path_content *)
(* and draw.                                                               *)
(*                                                                         *)
(* Strings are sequences of one-character strings.  One iteration of the   *)
(* run loop is: a poll step (a key is handled, or nothing arrives), for a  *)
(* Char or Backspace key in Edit mode the completion of the awaited search,*)
(* and the draw step.                                                      *)
(***************************************************************************)
EXTENDS Naturals, Sequences, FiniteSets

\* ------------------------------------------------------------------ bounds

\* Longest input buffer the modelled user types.
MaxLen == 3
\* Largest suggestion cursor value the modelled user drives Down to
\* (usize in the code).
MaxCursor == 2

\* ------------------------------------------------------------- Option<T>

None == [some |-> FALSE]
Some(v) == [some |-> TRUE, val |-> v]

\* ------------------------------------------------------------ Mode, Field

Fields == {"LeftPath", "RightPath"}
Normal == [tag |-> "Normal"]
Edit(field) == [tag |-> "Edit", field |-> field]

\* ------------------------------------------------------------------- keys

\* The texts the modelled user types, letter by letter.
Words == {<<"a", "b", "c">>, <<"q">>, <<"H">>, <<"L">>}
Min(a, b) == IF a < b THEN a ELSE b
Buffers == UNION {{SubSeq(w, 1, n) : n \in 0..Min(Len(w), MaxLen)} : w \in Words}
KeyChars == {"a", "b", "c", "q", "H", "L"}

Char(c) == [code |-> "Char", ch |-> c]
Key(code) == [code |-> code]
\* "F1" stands for every KeyCode the handlers send to their `_ => {}` arm.
Keys == {Char(c) : c \in KeyChars}
          \cup {Key(k) : k \in {"Esc", "Up", "Down", "Tab", "Enter", "Backspace", "F1"}}
NoKey == [code |-> "none"]

\* ------------------------------------------------------------ file system

\* What read_dir and DirEntry::metadata answer.  A path that is absent here
\* cannot be opened as a directory.  An entry is [name, ok, meta]: ok is
\* FALSE when the directory iterator yields Err for it, meta is the type
\* metadata() reports ("err" when metadata() fails).
DirEntry(name, ok, meta) == [name |-> name, ok |-> ok, meta |-> meta]
FileSystem ==
    [p \in {<<"a">>, <<"a", "b">>, <<"q">>, <<"L">>, <<"a", "/", "d">>} |->
        IF p = <<"a">> THEN
            << DirEntry(<<"f">>, TRUE, "file"), DirEntry(<<"d">>, TRUE, "dir"),
               DirEntry(<<"s">>, TRUE, "symlink"), DirEntry(<<"g">>, TRUE, "file"),
               DirEntry(<<"m">>, TRUE, "err"), DirEntry(<<"e">>, FALSE, "file") >>
        ELSE IF p = <<"a", "b">> THEN
            << DirEntry(<<"h">>, TRUE, "file") >>
        ELSE IF p = <<"q">> THEN
            << DirEntry(<<"d">>, TRUE, "dir"), DirEntry(<<"p">>, TRUE, "fifo") >>
        ELSE IF p = <<"a", "/", "d">> THEN
            << DirEntry(<<"x">>, TRUE, "file") >>
        ELSE << >>]

read_dir(path) ==
    IF path \in DOMAIN FileSystem THEN Some(FileSystem[path]) ELSE None

\* Path::join as DirEntry::path uses it: one separator between the two parts.
Join(path, name) ==
    IF path # <<>> /\ path[Len(path)] = "/" THEN path \o name
    ELSE path \o <<"/">> \o name

\* Faulty variant: the type is taken through symbolic links.
IsRegularFile_FollowsLinks(e) == e.ok /\ e.meta \in {"file", "symlink"}

IsRegularFile(e) == e.ok /\ e.meta = "file"

read_path_content(path) ==
    LET entries == read_dir(path) IN
    IF ~entries.some THEN <<>>
    ELSE LET kept == SelectSeq(entries.val, IsRegularFile)
         IN  [i \in 1..Len(kept) |-> Join(path, kept[i].name)]

\* ---------------------------------------------------------- run_fzf_query

Err == [ok |-> FALSE]
Ok(v) == [ok |-> TRUE, val |-> v]

\* The lines a successful `find "<query>" -maxdepth 3 -type d | fzf -f <query>`
\* can print: find prints every path with the starting point as given.
FzfLines(query) == {<<query>>, <<query, query \o <<"/", "d">>>>}

\* The query is run by an external process: every outcome is possible.
run_fzf_query(query) == {Err} \cup {Ok(v) : v \in FzfLines(query)}

\* ------------------------------------------------------------------ state

VARIABLES
    mode,             \* State.mode
    left_path,        \* State.left_path
    right_path,       \* State.right_path
    fzf_suggestions,  \* State.fzf_suggestions : Option<Vec<String>>
    left_contents,    \* State.left_contents   : Option<Vec<PathBuf>>
    right_contents,   \* State.right_contents  : Option<Vec<PathBuf>>
    input,            \* State.input
    fzf_selected,     \* State.fzf_list_state.selected() : Option<usize>
    fzf_offset,       \* State.fzf_list_state.offset()   : usize
    pc,               \* where the run loop is: "poll", "await", "draw", "done", "failed"
    fzf_query,        \* the query update_fzf is awaiting, None when none is
    tick,             \* history: what the current loop iteration has done
    entry,            \* history: both panes as they were when Edit mode was entered
    downs             \* history: Some(n) when the cursor was None and n Down keys and
                      \* no Up key have been handled since, None after an Up key

state == <<mode, left_path, right_path, fzf_suggestions, left_contents,
           right_contents, input, fzf_selected, fzf_offset>>
panes == <<left_path, left_contents, right_path, right_contents>>
vars == <<mode, left_path, right_path, fzf_suggestions, left_contents,
          right_contents, input, fzf_selected, fzf_offset, pc, fzf_query, tick,
          entry, downs>>

Home == <<"~", "/">>

\* event: what the poll of the iteration brought ("none" before the first
\* iteration); draws: the calls of draw the iteration has made; frame: the
\* frame it has drawn.
NoTick == [key |-> NoKey, mode |-> Normal, input |-> <<>>,
           searches |-> <<>>, lists |-> <<>>, reply |-> "none",
           event |-> "none", draws |-> 0, frame |-> None]
Handling(key) == [key |-> key, mode |-> mode, input |-> input,
                  searches |-> <<>>, lists |-> <<>>, reply |-> "none",
                  event |-> IF key = NoKey THEN "timeout" ELSE "key",
                  draws |-> 0, frame |-> None]

Init ==
    /\ mode = Normal
    /\ left_path = Home
    /\ right_path = Home
    /\ fzf_suggestions = None
    /\ left_contents = None
    /\ right_contents = None
    /\ input = <<>>
    /\ fzf_selected = None
    /\ fzf_offset = 0
    /\ pc = "poll"
    /\ fzf_query = None
    /\ tick = NoTick
    /\ entry = None
    /\ downs = Some(0)

\* ------------------------------------------------------ Mode::Normal keys

NormalQuit ==
    /\ pc = "poll" /\ mode = Normal
    /\ pc' = "done"
    /\ tick' = Handling(Char("q"))
    /\ UNCHANGED <<state, fzf_query, entry, downs>>

EnterEdit(field) ==
    /\ mode' = Edit(field)
    /\ UNCHANGED <<left_path, right_path, fzf_suggestions, left_contents,
                   right_contents, input, fzf_selected>>

NormalEdit ==
    /\ pc = "poll" /\ mode = Normal
    /\ \E k \in {"H", "L"} :
          /\ EnterEdit(IF k = "H" THEN "LeftPath" ELSE "RightPath")
          /\ tick' = Handling(Char(k))
    /\ entry' = Some(panes)
    /\ pc' = "draw"
    /\ UNCHANGED <<fzf_offset, fzf_query, downs>>

\* Faulty variant: Backspace edits the input buffer in Normal mode too.
NormalOther_BackspacePops ==
    /\ pc = "poll" /\ mode = Normal
    /\ \E k \in Keys \ {Char("q"), Char("H"), Char("L")} :
          /\ tick' = Handling(k)
          /\ input' = IF k = Key("Backspace") /\ input # <<>>
                       THEN SubSeq(input, 1, Len(input) - 1) ELSE input
    /\ pc' = "draw"
    /\ UNCHANGED <<mode, left_path, right_path, fzf_suggestions, left_contents,
                   right_contents, fzf_selected, fzf_offset, fzf_query, entry,
                   downs>>

NormalOther ==
    /\ pc = "poll" /\ mode = Normal
    /\ \E k \in Keys \ {Char("q"), Char("H"), Char("L")} : tick' = Handling(k)
    /\ pc' = "draw"
    /\ UNCHANGED <<state, fzf_query, entry, downs>>

\* ----------------------------------------------------- Mode::Edit(field) keys

\* Faulty variant: keys are handled while a query is still awaited.
InEdit_WhileAwaiting == pc \in {"poll", "await"} /\ mode.tag = "Edit"

InEdit == pc = "poll" /\ mode.tag = "Edit"

\* Faulty variant: cancelling writes the typed text into the target pane.
Esc_WritesPath ==
    /\ mode' = Normal
    /\ IF mode.field = "LeftPath"
       THEN left_path' = input /\ UNCHANGED right_path
       ELSE right_path' = input /\ UNCHANGED left_path
    /\ UNCHANGED <<fzf_suggestions, left_contents, right_contents, input,
                   fzf_selected>>

Esc ==
    /\ mode' = Normal
    /\ UNCHANGED <<left_path, right_path, fzf_suggestions, left_contents,
                   right_contents, input, fzf_selected>>

EditEsc ==
    /\ InEdit
    /\ Esc
    /\ tick' = Handling(Key("Esc"))
    /\ pc' = "draw"
    /\ UNCHANGED <<fzf_offset, fzf_query, entry, downs>>

\* KeyCode::Up on fzf_list_state.selected()
Up(selected) ==
    IF selected.some
    THEN IF selected.val > 0 THEN Some(selected.val - 1) ELSE None
    ELSE selected

\* Faulty variant: Down stops at the last suggestion.
Down_Clamped(selected) ==
    LET n == IF fzf_suggestions.some THEN Len(fzf_suggestions.val) ELSE 0 IN
    IF selected.some
    THEN IF selected.val + 1 < n THEN Some(selected.val + 1) ELSE selected
    ELSE Some(0)

\* KeyCode::Down on fzf_list_state.selected()
Down(selected) ==
    IF selected.some THEN Some(selected.val + 1) ELSE Some(0)

EditUp ==
    /\ InEdit
    /\ fzf_selected' = Up(fzf_selected)
    /\ tick' = Handling(Key("Up"))
    /\ downs' = IF fzf_selected'.some THEN None ELSE Some(0)
    /\ pc' = "draw"
    /\ UNCHANGED <<mode, left_path, right_path, fzf_suggestions, left_contents,
                   right_contents, input, fzf_offset, fzf_query, entry>>

EditDown ==
    /\ InEdit
    /\ fzf_selected.some => fzf_selected.val < MaxCursor
    /\ fzf_selected' = Down(fzf_selected)
    /\ tick' = Handling(Key("Down"))
    /\ downs' = IF downs.some THEN Some(downs.val + 1) ELSE None
    /\ pc' = "draw"
    /\ UNCHANGED <<mode, left_path, right_path, fzf_suggestions, left_contents,
                   right_contents, input, fzf_offset, fzf_query, entry>>

\* Faulty variant: Tab accepts the suggestion under the cursor.
EditNoOp_TabAccepts ==
    /\ InEdit
    /\ \E k \in {"Tab", "F1"} :
          /\ tick' = Handling(Key(k))
          /\ input' = IF k = "Tab" /\ fzf_selected.some /\ fzf_suggestions.some
                            /\ fzf_selected.val < Len(fzf_suggestions.val)
                       THEN fzf_suggestions.val[fzf_selected.val + 1]
                       ELSE input
    /\ pc' = "draw"
    /\ UNCHANGED <<mode, left_path, right_path, fzf_suggestions, left_contents,
                   right_contents, fzf_selected, fzf_offset, fzf_query, entry,
                   downs>>

\* KeyCode::Tab and the `_ => {}` arm
EditNoOp ==
    /\ InEdit
    /\ \E k \in {"Tab", "F1"} : tick' = Handling(Key(k))
    /\ pc' = "draw"
    /\ UNCHANGED <<state, fzf_query, entry, downs>>

\* format!("{}{}", state.input, key)
Push(buffer, c) == Append(buffer, c)

\* String::pop
Pop(buffer) == IF buffer = <<>> THEN buffer ELSE SubSeq(buffer, 1, Len(buffer) - 1)

\* Faulty variant: the query is the buffer as it was before the key.
CallUpdateFzf_StaleQuery(key, buffer) ==
    /\ fzf_query' = Some(input)
    /\ tick' = [Handling(key) EXCEPT !.searches = <<input>>]
    /\ pc' = "await"

\* Faulty variant: the query is started and the handler returns without
\* awaiting it.
CallUpdateFzf_NotAwaited(key, buffer) ==
    /\ fzf_query' = Some(buffer)
    /\ tick' = [Handling(key) EXCEPT !.searches = <<buffer>>]
    /\ pc' = "draw"

\* update_fzf(state.input.clone(), &mut state) up to its await
CallUpdateFzf(key, buffer) ==
    /\ fzf_query' = Some(buffer)
    /\ tick' = [Handling(key) EXCEPT !.searches = <<buffer>>]
    /\ pc' = "await"

\* Faulty variant: H and L pick the edited field in Edit mode as well.
EditChar_HLSwitch ==
    /\ InEdit
    /\ \E c \in KeyChars :
          /\ Push(input, c) \in Buffers
          /\ input' = Push(input, c)
          /\ CallUpdateFzf(Char(c), input')
          /\ mode' = IF c = "H" THEN Edit("LeftPath")
                     ELSE IF c = "L" THEN Edit("RightPath")
                     ELSE mode
    /\ UNCHANGED <<left_path, right_path, fzf_suggestions, left_contents,
                   right_contents, fzf_selected, fzf_offset, entry, downs>>

\* Faulty variant: q leaves the loop in Edit mode as well.
EditChar_QQuits ==
    /\ InEdit
    /\ \E c \in KeyChars :
          IF c = "q"
          THEN /\ pc' = "done"
               /\ tick' = Handling(Char(c))
               /\ UNCHANGED <<input, fzf_query>>
          ELSE /\ Push(input, c) \in Buffers
               /\ input' = Push(input, c)
               /\ CallUpdateFzf(Char(c), input')
    /\ UNCHANGED <<mode, left_path, right_path, fzf_suggestions, left_contents,
                   right_contents, fzf_selected, fzf_offset, entry, downs>>

EditChar ==
    /\ InEdit
    /\ \E c \in KeyChars :
          /\ Push(input, c) \in Buffers
          /\ input' = Push(input, c)
          /\ CallUpdateFzf(Char(c), input')
    /\ UNCHANGED <<mode, left_path, right_path, fzf_suggestions, left_contents,
                   right_contents, fzf_selected, fzf_offset, entry, downs>>

EditBackspace ==
    /\ InEdit
    /\ input' = Pop(input)
    /\ CallUpdateFzf(Key("Backspace"), input')
    /\ UNCHANGED <<mode, left_path, right_path, fzf_suggestions, left_contents,
                   right_contents, fzf_selected, fzf_offset, entry, downs>>

\* Faulty variant: a failed query clears the suggestions.
MatchResult_ErrClears(result) ==
    IF result.ok THEN fzf_suggestions' = Some(result.val)
    ELSE fzf_suggestions' = None

\* the `match result` of update_fzf
MatchResult(result) ==
    IF result.ok THEN fzf_suggestions' = Some(result.val)
    ELSE UNCHANGED fzf_suggestions

\* update_fzf from the completion of run_fzf_query(..).await to its return
update_fzf ==
    /\ pc = "await"
    /\ \E result \in run_fzf_query(fzf_query.val) :
          /\ MatchResult(result)
          /\ tick' = [tick EXCEPT !.reply = IF result.ok THEN "ok" ELSE "err"]
    /\ fzf_query' = None
    /\ pc' = "draw"
    /\ UNCHANGED <<mode, left_path, right_path, left_contents, right_contents,
                   input, fzf_selected, fzf_offset, entry, downs>>

\* Faulty variant: the input buffer is not cleared.
Enter_KeepsInput(field) ==
    /\ IF field = "LeftPath"
       THEN /\ left_path' = input
            /\ left_contents' = Some(read_path_content(left_path'))
            /\ UNCHANGED <<right_path, right_contents>>
       ELSE /\ right_path' = input
            /\ right_contents' = Some(read_path_content(right_path'))
            /\ UNCHANGED <<left_path, left_contents>>
    /\ mode' = Normal
    /\ UNCHANGED <<input, fzf_suggestions, fzf_selected>>

\* Faulty variant: the directory is listed before the path is assigned.
Enter_ListsOldPath(field) ==
    /\ IF field = "LeftPath"
       THEN /\ left_path' = input
            /\ left_contents' = Some(read_path_content(left_path))
            /\ UNCHANGED <<right_path, right_contents>>
       ELSE /\ right_path' = input
            /\ right_contents' = Some(read_path_content(right_path))
            /\ UNCHANGED <<left_path, left_contents>>
    /\ input' = <<>>
    /\ mode' = Normal
    /\ UNCHANGED <<fzf_suggestions, fzf_selected>>

\* Faulty variant: a commit re-lists the other pane as well.
Enter_RefreshesBoth(field) ==
    /\ IF field = "LeftPath"
       THEN /\ left_path' = input
            /\ left_contents' = Some(read_path_content(left_path'))
            /\ right_contents' = Some(read_path_content(right_path))
            /\ UNCHANGED right_path
       ELSE /\ right_path' = input
            /\ right_contents' = Some(read_path_content(right_path'))
            /\ left_contents' = Some(read_path_content(left_path))
            /\ UNCHANGED left_path
    /\ input' = <<>>
    /\ mode' = Normal
    /\ UNCHANGED <<fzf_suggestions, fzf_selected>>

\* Faulty variant: a path that cannot be opened leaves the contents alone.
Enter_SkipsUnreadable(field) ==
    /\ IF field = "LeftPath"
       THEN /\ left_path' = input
            /\ left_contents' = IF read_dir(left_path').some
                                 THEN Some(read_path_content(left_path'))
                                 ELSE left_contents
            /\ UNCHANGED <<right_path, right_contents>>
       ELSE /\ right_path' = input
            /\ right_contents' = IF read_dir(right_path').some
                                  THEN Some(read_path_content(right_path'))
                                  ELSE right_contents
            /\ UNCHANGED <<left_path, left_contents>>
    /\ input' = <<>>
    /\ mode' = Normal
    /\ UNCHANGED <<fzf_suggestions, fzf_selected>>

\* KeyCode::Enter: the `match field`, then the input and the mode
Enter(field) ==
    /\ IF field = "LeftPath"
       THEN /\ left_path' = input
            /\ left_contents' = Some(read_path_content(left_path'))
            /\ UNCHANGED <<right_path, right_contents>>
       ELSE /\ right_path' = input
            /\ right_contents' = Some(read_path_content(right_path'))
            /\ UNCHANGED <<left_path, left_contents>>
    /\ input' = <<>>
    /\ mode' = Normal
    /\ UNCHANGED <<fzf_suggestions, fzf_selected>>

EditEnter ==
    /\ InEdit
    /\ Enter(mode.field)
    /\ tick' = [Handling(Key("Enter")) EXCEPT !.lists = <<input>>]
    /\ pc' = "draw"
    /\ UNCHANGED <<fzf_offset, fzf_query, entry, downs>>

\* ------------------------------------------------------------ no key event

\* Faulty variant: an iteration without a key event goes back to the poll.
NoInput_SkipsDraw ==
    /\ pc = "poll"
    /\ tick' = Handling(NoKey)
    /\ pc' = "poll"
    /\ UNCHANGED <<state, fzf_query, entry, downs>>

\* poll times out, or the event read is not a key event.
NoInput ==
    /\ pc = "poll"
    /\ tick' = Handling(NoKey)
    /\ pc' = "draw"
    /\ UNCHANGED <<state, fzf_query, entry, downs>>

\* poll or read fails: `?` returns the error out of run.
PollError ==
    /\ pc = "poll"
    /\ tick' = Handling(NoKey)
    /\ pc' = "failed"
    /\ UNCHANGED <<state, fzf_query, entry, downs>>

\* ------------------------------------------------------------------- draw

\* Option::unwrap_or(vec![]) / the `match` on left_contents
Items(contents) == IF contents.some THEN contents.val ELSE <<>>

\* The heights, in rows, the layout can give the inside of the suggestion
\* list (chunks[1] less its borders); 0 when the terminal is too small.
ListHeights == {0, 1, 3}

\* The offset the List widget's stateful render leaves in the ListState it
\* is lent: nothing is written when there is no room or no item; otherwise
\* the window of `height` one-row items is moved just far enough to show
\* the selected item (the first one when none is selected, the last one
\* when the index is past the end).
ListOffset(n, selected, offset, height) ==
    IF height < 1 \/ n = 0 THEN offset
    ELSE LET first == Min(offset, n - 1)
             shown == Min(IF selected.some THEN selected.val ELSE 0, n - 1)
         IN  IF shown >= first + height THEN shown + 1 - height
             ELSE IF shown < first THEN shown
             ELSE first

\* The Mode::Normal arm of draw: `left_path`, the list of left_contents,
\* and the same paragraph again over the right pane.
NormalFrame ==
    LET left_path_text == IF mode = Edit("LeftPath") THEN input ELSE left_path
    IN  [view |-> "Normal",
         left_header |-> left_path_text,
         list |-> Items(left_contents),
         right_header |-> left_path_text]

\* The Mode::Edit arm of draw: the input paragraph and the suggestion list,
\* rendered with fzf_list_state.
EditFrame(offset) ==
    LET suggestions == Items(fzf_suggestions)
    IN  [view |-> "Edit",
         path |-> input,
         list |-> suggestions,
         highlighted |-> IF fzf_selected.some /\ fzf_selected.val < Len(suggestions)
                         THEN fzf_selected ELSE None,
         offset |-> offset]

\* Faulty variant: the render also pulls a cursor past the end back onto the
\* last suggestion.
draw_ClampsSelected ==
    /\ pc = "draw"
    /\ pc' = "poll"
    /\ \E height \in ListHeights :
          /\ fzf_offset' =
                IF mode.tag = "Edit"
                THEN ListOffset(Len(Items(fzf_suggestions)), fzf_selected,
                                fzf_offset, height)
                ELSE fzf_offset
          /\ tick' = [NoTick EXCEPT
                        !.event = tick.event,
                        !.draws = tick.draws + 1,
                        !.frame = Some(IF mode = Normal THEN NormalFrame
                                       ELSE EditFrame(fzf_offset'))]
    /\ fzf_selected' =
          IF mode.tag = "Edit" /\ fzf_selected.some
                /\ Len(Items(fzf_suggestions)) > 0
                /\ fzf_selected.val >= Len(Items(fzf_suggestions))
          THEN Some(Len(Items(fzf_suggestions)) - 1)
          ELSE fzf_selected
    /\ entry' = IF mode = Normal THEN None ELSE entry
    /\ UNCHANGED <<mode, left_path, right_path, fzf_suggestions, left_contents,
                   right_contents, input, fzf_query, downs>>

\* draw reads the state to build the frame.  In Edit mode it lends
\* fzf_list_state to the List widget's stateful render (main.rs:280), which
\* writes the scroll offset; the selected index is left as the key handlers
\* set it.  An error of terminal.draw is dropped by `.ok()`.
draw ==
    /\ pc = "draw"
    /\ pc' = "poll"
    /\ \E height \in ListHeights :
          /\ fzf_offset' =
                IF mode.tag = "Edit"
                THEN ListOffset(Len(Items(fzf_suggestions)), fzf_selected,
                                fzf_offset, height)
                ELSE fzf_offset
          /\ tick' = [NoTick EXCEPT
                        !.event = tick.event,
                        !.draws = tick.draws + 1,
                        !.frame = Some(IF mode = Normal THEN NormalFrame
                                       ELSE EditFrame(fzf_offset'))]
    /\ entry' = IF mode = Normal THEN None ELSE entry
    /\ UNCHANGED <<mode, left_path, right_path, fzf_suggestions, left_contents,
                   right_contents, input, fzf_selected, fzf_query, downs>>

Next ==
    \/ NormalQuit
    \/ NormalEdit
    \/ NormalOther
    \/ EditEsc
    \/ EditUp
    \/ EditDown
    \/ EditNoOp
    \/ EditChar
    \/ EditBackspace
    \/ update_fzf
    \/ EditEnter
    \/ NoInput
    \/ PollError
    \/ draw

Spec == Init /\ [][Next]_vars

\* ============================================================ properties

AfterKey(code) == pc = "draw" /\ tick.key = Key(code)
AfterEditKey(code) == AfterKey(code) /\ tick.mode.tag = "Edit"

\* C1: in every reachable state whose mode is Normal the input buffer is
\* empty.
C1_NormalInputEmpty == mode = Normal => input = <<>>

\* C2: right after H or L is handled in Normal mode, the mode is Edit of
\* the matching field, the input buffer is empty, the suggestions are None
\* and the suggestion cursor is None.
C2_FreshEditSession ==
    (pc = "draw" /\ tick.mode = Normal /\ tick.key \in {Char("H"), Char("L")})
        => /\ mode = Edit(IF tick.key = Char("H") THEN "LeftPath" ELSE "RightPath")
           /\ input = <<>>
           /\ fzf_suggestions = None
           /\ fzf_selected = None

\* C3: after Enter is handled in Edit mode, for either field and any buffer,
\* the input buffer is empty and the mode is Normal.
C3_EnterClearsInput ==
    AfterEditKey("Enter") => input = <<>> /\ mode = Normal

C3_Witness ==
    /\ AfterEditKey("Enter")
    /\ tick.mode = Edit("RightPath")
    /\ tick.input = <<"a", "b", "c">>
    /\ read_dir(tick.input) = None

\* C4: after Enter is handled in Edit(field), that field's pane has the
\* buffer as it was before the key as its path, and Some of the listing of
\* that path as its contents.
C4_EnterCommits ==
    AfterEditKey("Enter") =>
        IF tick.mode.field = "LeftPath"
        THEN /\ left_path = tick.input
             /\ left_contents = Some(read_path_content(tick.input))
             /\ tick.lists = <<tick.input>>
        ELSE /\ right_path = tick.input
             /\ right_contents = Some(read_path_content(tick.input))
             /\ tick.lists = <<tick.input>>

C4_Witness ==
    /\ AfterEditKey("Enter")
    /\ tick.mode = Edit("RightPath")
    /\ right_path = <<"a">>
    /\ right_contents = Some(<< <<"a", "/", "f">>, <<"a", "/", "g">> >>)
    /\ left_contents = Some(<< <<"a", "b", "/", "h">> >>)

\* C5: after Esc is handled in Edit mode the mode is Normal and both panes'
\* path and contents are what they were when Edit mode was entered.
C5_EscKeepsPanes ==
    AfterEditKey("Esc") => mode = Normal /\ entry = Some(panes)

C5_Witness ==
    /\ AfterEditKey("Esc")
    /\ tick.input = <<"a", "b">>
    /\ fzf_suggestions.some
    /\ left_contents.some
    /\ left_path # tick.input

\* C6: a key other than H, L and q handled in Normal mode changes no field
\* of the state, starts no directory search and lists no directory.
C6_NormalOtherKeysNoOp ==
    [][(pc = "poll" /\ mode = Normal
            /\ tick'.key \in Keys \ {Char("H"), Char("L"), Char("q")})
        => /\ UNCHANGED state
           /\ pc' = "draw"
           /\ fzf_query' = None
           /\ tick'.searches = <<>>
           /\ tick'.lists = <<>>]_vars

C6_Witness ==
    /\ AfterKey("Backspace")
    /\ tick.mode = Normal
    /\ input = <<"a", "b">>
    /\ fzf_selected.some

\* C7: Up in Edit mode takes Some(v), v > 0, to Some(v - 1), Some(0) to None
\* and None to None; Down takes None to Some(0) and Some(v) to Some(v + 1);
\* after n >= 1 Down keys from a None cursor with no Up key between them the
\* cursor is Some(n - 1), whatever the number of suggestions.
C7_CursorArithmetic ==
    /\ [][(pc = "poll" /\ mode.tag = "Edit" /\ tick'.key = Key("Up"))
            => fzf_selected' =
                 IF fzf_selected = None THEN None
                 ELSE IF fzf_selected.val > 0 THEN Some(fzf_selected.val - 1)
                 ELSE None]_vars
    /\ [][(pc = "poll" /\ mode.tag = "Edit" /\ tick'.key = Key("Down"))
            => fzf_selected' =
                 IF fzf_selected = None THEN Some(0)
                 ELSE Some(fzf_selected.val + 1)]_vars
    /\ []((downs.some /\ downs.val >= 1) => fzf_selected = Some(downs.val - 1))
    /\ []((downs.some /\ downs.val = 0) => fzf_selected = None)

C7_Witness ==
    /\ AfterEditKey("Down")
    /\ downs = Some(MaxCursor + 1)
    /\ fzf_selected = Some(MaxCursor)
    /\ fzf_suggestions.some
    /\ fzf_selected.val >= Len(fzf_suggestions.val)

\* C8: when update_fzf handles a failed query, the suggestions, whatever
\* they were, and every other field of the state stay as they were.
C8_FailedSearchKeepsState ==
    [][(pc = "await" /\ tick'.reply = "err") => UNCHANGED state]_vars

C8_Witness ==
    /\ pc = "draw"
    /\ tick.reply = "err"
    /\ fzf_suggestions.some
    /\ tick.searches # <<fzf_suggestions.val[1]>>

\* C9: in Edit mode a Char key appends its character to the input buffer
\* and Backspace removes the last character (an empty buffer stays empty);
\* each starts exactly one directory search, whose query is the buffer after
\* the edit, and a successful reply makes that query's result the
\* suggestions.
C9_EditKeysSearch ==
    /\ [][(pc = "poll" /\ mode.tag = "Edit" /\ tick'.key.code = "Char")
            => /\ input' = input \o <<tick'.key.ch>>
               /\ pc' = "await"
               /\ fzf_query' = Some(input')
               /\ tick'.searches = <<input'>>]_vars
    /\ [][(pc = "poll" /\ mode.tag = "Edit" /\ tick'.key = Key("Backspace"))
            => /\ input' = IF input = <<>> THEN <<>>
                           ELSE SubSeq(input, 1, Len(input) - 1)
               /\ pc' = "await"
               /\ fzf_query' = Some(input')
               /\ tick'.searches = <<input'>>]_vars
    /\ [][(pc = "await" /\ tick'.reply = "ok")
            => /\ fzf_query = Some(input)
               /\ fzf_suggestions'.some
               /\ fzf_suggestions'.val \in FzfLines(input)
               /\ tick'.searches = <<input>>
               /\ input' = input]_vars
    /\ [](pc = "await" <=> fzf_query.some)

C9_Witness ==
    /\ pc = "draw"
    /\ tick.key = Char("b")
    /\ tick.mode.tag = "Edit"
    /\ tick.reply = "ok"
    /\ tick.searches = << <<"a", "b">> >>
    /\ fzf_suggestions = Some(<< <<"a", "b">>, <<"a", "b", "/", "d">> >>)

\* C10: the contents of a pane change only in the step that handles Enter in
\* Edit mode for that pane's field.
C10_ContentsChangeOnlyOnEnter ==
    /\ [][left_contents' # left_contents
            => /\ pc = "poll" /\ mode = Edit("LeftPath")
               /\ tick'.key = Key("Enter")]_vars
    /\ [][right_contents' # right_contents
            => /\ pc = "poll" /\ mode = Edit("RightPath")
               /\ tick'.key = Key("Enter")]_vars

C10_Witness ==
    /\ AfterEditKey("Enter")
    /\ tick.mode = Edit("RightPath")
    /\ right_contents = Some(<<>>)
    /\ left_contents = Some(<< <<"a", "/", "f">>, <<"a", "/", "g">> >>)
    /\ entry.val[4] = Some(<< <<"a", "b", "/", "h">> >>)

\* C11: committing a path that cannot be opened as a directory is absorbed:
\* Enter in Edit(LeftPath) with such a buffer ("abc" after H, a, b, c) makes
\* it the left path, makes the left contents Some of the empty list, never
\* None, returns to Normal mode and goes on to the draw of the same
\* iteration.
C11_UnreadableCommitAbsorbed ==
    [][(pc = "poll" /\ mode = Edit("LeftPath") /\ tick'.key = Key("Enter")
            /\ read_dir(input) = None)
        => /\ left_path' = input
           /\ left_contents' = Some(<<>>)
           /\ mode' = Normal
           /\ pc' = "draw"]_vars

C11_Witness ==
    /\ AfterEditKey("Enter")
    /\ tick.mode = Edit("LeftPath")
    /\ tick.input = <<"a", "b", "c">>
    /\ entry.val[2] = None
    /\ left_path = <<"a", "b", "c">>
    /\ left_contents = Some(<<>>)

\* C12 as claimed: draw is called exactly once in every iteration of the run
\* loop, whether it handled a key or the poll timed out: once an iteration
\* has ended, by going back to the poll or by leaving the loop on a key, it
\* has called draw once.
C12_DrawOnceEveryTick ==
    (pc = "done" \/ (pc = "poll" /\ tick.event # "none")) => tick.draws = 1

\* C12 as amended: every iteration that does not leave the loop calls draw
\* exactly once, after its input handling (and after the awaited search, if
\* any), both when a key was handled and when the poll brought no key; the
\* loop is left only from the poll step, before the draw.
C12_DrawOncePerCompletedTick ==
    /\ []((pc = "poll" /\ tick.event # "none") => tick.draws = 1)
    /\ [][(pc = "poll" /\ pc' \notin {"done", "failed"})
            => pc' \in {"await", "draw"} /\ tick'.draws = 0]_vars
    /\ [][pc = "await" => pc' = "draw" /\ tick'.draws = 0]_vars
    /\ [][pc = "draw" => pc' = "poll" /\ tick'.draws = 1
                          /\ tick'.event = tick.event]_vars
    /\ [][pc' \in {"done", "failed"} => pc = "poll" /\ tick'.draws = 0]_vars

C12_Witness ==
    /\ pc = "poll"
    /\ tick.event = "timeout"
    /\ tick.draws = 1
    /\ mode.tag = "Edit"
    /\ fzf_suggestions.some

\* C13: a search result is merged before the draw of its iteration and
\* before the next poll: a query is in flight only while its handler awaits
\* it, it is the only query its iteration has issued, and the next step
\* after it is issued applies or discards its reply; no key is handled and
\* nothing is drawn in between.
C13_SearchMergedBeforeNextInput ==
    /\ [](fzf_query.some
            => /\ pc = "await"
               /\ tick.searches = <<fzf_query.val>>
               /\ tick.reply = "none"
               /\ tick.draws = 0)
    /\ [][fzf_query.some
            => /\ fzf_query' = None
               /\ tick'.reply \in {"ok", "err"}
               /\ tick'.key = tick.key
               /\ tick'.draws = 0
               /\ pc' = "draw"]_vars
    /\ []((pc \in {"poll", "draw"} /\ tick.searches # <<>>)
            => pc = "draw" /\ tick.reply \in {"ok", "err"})

C13_Witness ==
    /\ pc = "draw"
    /\ tick.key = Char("c")
    /\ tick.searches = << <<"a", "b", "c">> >>
    /\ tick.reply = "ok"
    /\ fzf_query = None
    /\ fzf_suggestions = Some(<< <<"a", "b", "c">> >>)

\* C14 as claimed: a reply to an older query can be applied after a newer
\* keystroke has issued a newer query; for that, a query in flight must not
\* keep the next keystroke from being handled and from issuing its query.
C14_KeystrokeWhileQueryInFlight ==
    fzf_query.some => ENABLED (EditChar \/ EditBackspace)

\* C14 as amended: no reply is applied after a newer keystroke: while a
\* query is in flight the loop is suspended in the handler that issued it
\* and the query is the current input buffer; the reply that is applied
\* answers the one query of its iteration, issued by the key that iteration
\* handled, and a successful one makes the suggestions that query's result.
C14_NoStaleOverwrite ==
    /\ [](fzf_query.some
            => /\ pc = "await"
               /\ fzf_query.val = input
               /\ tick.key \in {Char(c) : c \in KeyChars} \cup {Key("Backspace")}
               /\ ~ ENABLED (EditChar \/ EditBackspace \/ EditEsc \/ EditEnter))
    /\ [][(tick'.reply \in {"ok", "err"} /\ tick'.reply # tick.reply)
            => /\ tick.reply = "none"
               /\ tick.searches = <<input>>
               /\ fzf_query = Some(input)
               /\ tick'.reply = "ok" => fzf_suggestions'.val \in FzfLines(input)]_vars

C14_Witness ==
    /\ pc = "draw"
    /\ tick.key = Char("b")
    /\ tick.reply = "ok"
    /\ tick.searches = <<input>>
    /\ input = <<"a", "b">>
    /\ fzf_suggestions = Some(<< <<"a", "b">> >>)
    /\ entry.val[1] = <<"a">>

\* C15 as claimed: a call of draw leaves every field of the state as it was,
\* the suggestion list state included, in Normal and in Edit mode.
C15_DrawChangesNothing ==
    [][pc = "draw" => UNCHANGED state]_vars

\* C15 as amended: a call of draw leaves the mode, both panes' path and
\* contents, the input buffer, the suggestions and the selected index as
\* they were; in Normal mode it leaves the whole state as it was; in Edit
\* mode the list render it lends fzf_list_state to may move the scroll
\* offset.
C15_DrawKeepsAllButOffset ==
    [][pc = "draw"
        => /\ UNCHANGED <<mode, left_path, right_path, left_contents,
                          right_contents, input, fzf_suggestions, fzf_selected>>
           /\ mode = Normal => UNCHANGED fzf_offset]_vars

C15_Witness ==
    /\ pc = "poll"
    /\ tick.draws = 1
    /\ tick.frame.val.view = "Edit"
    /\ fzf_offset = 1
    /\ fzf_selected = Some(MaxCursor)
    /\ input = <<"a">>

\* C16: a frame drawn in Normal mode shows the left pane's path in its left
\* header and the right pane's path in its right header.
C16_HeadersShowBothPaths ==
    (tick.frame.some /\ tick.frame.val.view = "Normal")
        => /\ tick.frame.val.left_header = left_path
           /\ tick.frame.val.right_header = right_path

Children(path) == {FileSystem[path][i] : i \in DOMAIN FileSystem[path]}
Listed(listing) == {listing[i] : i \in DOMAIN listing}
ListsRegularFiles(path, listing) ==
    IF path \notin DOMAIN FileSystem THEN listing = <<>>
    ELSE /\ \A e \in Children(path) :
              (path \o <<"/">> \o e.name \in Listed(listing))
                  <=> (e.ok /\ e.meta = "file")
         /\ \A f \in Listed(listing) :
              \E e \in Children(path) : f = path \o <<"/">> \o e.name
         /\ Cardinality(Listed(listing)) = Len(listing)

\* C17: the listing a commit stores for a path is empty when the path cannot
\* be opened as a directory; otherwise it holds exactly the direct children
\* that are regular files, each once, as path/name: directories, symbolic
\* links, pipes, children whose metadata cannot be read and the files of
\* subdirectories are left out, and the other children are not affected.
C17_ListerRegularFilesOnly ==
    AfterEditKey("Enter") =>
        ListsRegularFiles(tick.input,
                          IF tick.mode.field = "LeftPath"
                          THEN left_contents.val ELSE right_contents.val)

C17_Witness ==
    /\ AfterEditKey("Enter")
    /\ tick.mode = Edit("LeftPath")
    /\ tick.input = <<"a">>
    /\ Len(FileSystem[<<"a">>]) = 6
    /\ left_contents = Some(<< <<"a", "/", "f">>, <<"a", "/", "g">> >>)
    /\ right_contents = Some(<<>>)
    /\ right_path = <<"q">>

\* C18: the loop is left on a key only when q is handled in Normal mode, and
\* that step changes no field of the state; q handled in Edit mode is
\* appended to the input buffer, starts a search for the new buffer and
\* keeps the loop running.
C18_QuitOnlyOnNormalQ ==
    /\ [][pc' = "done"
            => /\ pc = "poll" /\ mode = Normal
               /\ tick'.key = Char("q")
               /\ UNCHANGED state]_vars
    /\ [][(pc = "poll" /\ mode = Normal /\ tick'.key = Char("q"))
            => pc' = "done"]_vars
    /\ [][(pc = "poll" /\ mode.tag = "Edit" /\ tick'.key = Char("q"))
            => /\ input' = input \o <<"q">>
               /\ fzf_query' = Some(input')
               /\ pc' = "await"
               /\ mode' = mode]_vars
    /\ [](pc = "done" => tick.key = Char("q") /\ tick.mode = Normal /\ mode = Normal)

C18_Witness ==
    /\ pc = "done"
    /\ left_path = <<"q">>
    /\ fzf_suggestions = Some(<< <<"q">> >>)
    /\ input = <<"a">>

\* C19: the edited field is fixed for an edit session: a step taken in
\* Edit(field) leaves the mode Edit(field) or makes it Normal; H and L
\* handled in Edit mode are appended to the input buffer and keep the mode.
C19_EditTargetFixed ==
    /\ [][mode.tag = "Edit" => mode' \in {mode, Normal}]_vars
    /\ [][(pc = "poll" /\ mode.tag = "Edit"
              /\ tick'.key \in {Char("H"), Char("L")})
            => /\ mode' = mode
               /\ input' = input \o <<tick'.key.ch>>]_vars
    /\ [][(mode.tag = "Edit" /\ mode' = Normal)
            => tick'.key \in {Key("Esc"), Key("Enter")}]_vars

C19_Witness ==
    /\ pc = "draw"
    /\ mode = Edit("LeftPath")
    /\ tick.key = Char("L")
    /\ tick.mode = Edit("LeftPath")
    /\ input = <<"L">>
    /\ right_path = <<"H">>

====
